---- MODULE Spec2Model ----
(***************************************************************************)
(* Model of the Nitter RSS -> Discord bot of src/main.py: the cursor file, *)
(* the sentiment_history table, the flip detector, the poll_feed loop and  *)
(* the on_ready / on_resumed handlers that launch it.                      *)
(* Feed entries are identified by their entry.id, written 1, 2, 3, ... in  *)
(* posting order (feedparser yields stripped, non-empty identifiers).      *)
(***************************************************************************)
EXTENDS Integers, Sequences, FiniteSets, TLC

\* ------------------------------------------------------------------ bounds
MaxItems == 2      \* tweets the account ever posts

\* --------------------------------------------------------------- constants
SENTIMENT_ENABLED == TRUE
FLIP_ALERTS_ENABLED == TRUE

\* Python None for an optional string, and a key missing from a dict.
None == "<None>"
Absent == "<absent>"
\* Python None for an optional entry id; the text of an empty file; no file.
NoId == 0
EmptyText == 0
FileNotFound == -1

Ids == 1..MaxItems

\* ----------------------------------------------------------- str helpers
\* str.upper() on the strings the model uses.
Upper(s) ==
  CASE s = "btc" -> "BTC"
    [] s = "$btc" -> "$BTC"
    [] s = "eth" -> "ETH"
    [] s = "$eth" -> "$ETH"
    [] OTHER -> s

\* str.lstrip("$") on the strings the model uses.
LStripDollar(s) ==
  CASE s = "$BTC" -> "BTC"
    [] s = "$btc" -> "btc"
    [] s = "$ETH" -> "ETH"
    [] s = "$eth" -> "eth"
    [] OTHER -> s

\* dict.get(key, default)
DictGet(v, default) == IF v = Absent THEN default ELSE v

\* t.upper().lstrip("$")
Normalize(t) == LStripDollar(Upper(t))

Reverse(s) == [i \in 1..Len(s) |-> s[Len(s) + 1 - i]]

\* ------------------------------------------------------------ cursor file
\* load_last_id: a missing file and an empty (or blank) file both give None.
load_last_id(file) ==
  IF file = FileNotFound THEN NoId
  ELSE IF file = EmptyText THEN NoId
  ELSE file

\* save_last_id: mkdir, open(..., "w") truncates, then the id is written.
\* outcome "ok": the id is in the file; "open_failed": mkdir or open raised
\* and the file is as before; "write_failed": the file was truncated and the
\* write (or the flush at close) raised.
save_last_id(file, tweet_id, outcome) ==
  CASE outcome = "ok" -> [file |-> tweet_id, raised |-> FALSE]
    [] outcome = "open_failed" -> [file |-> file, raised |-> TRUE]
    [] outcome = "write_failed" -> [file |-> EmptyText, raised |-> TRUE]

SaveOutcomes == {"ok", "open_failed", "write_failed"}

\* ------------------------------------------------------------ ticker filter
\* should_analyze without the filter: every list of tickers passes.
should_analyze_Always(filters, tickers) == TRUE

should_analyze(filters, tickers) ==
  IF filters = <<>> THEN TRUE
  ELSE LET detected_upper == {Normalize(tickers[i]) : i \in 1..Len(tickers)}
           filters_upper == {Normalize(filters[i]) : i \in 1..Len(filters)}
       IN  (detected_upper \cap filters_upper) # {}

\* -------------------------------------------------------- sentiment ledger
\* A row of sentiment_history.  The table is kept as the sequence of its rows
\* in rowid order (AUTOINCREMENT: a new row gets a rowid above every other).
Row(tweet_id, tickers, sentiment, created_at) ==
  [tweet_id |-> tweet_id, tickers |-> tickers, sentiment |-> sentiment,
   created_at |-> created_at]

\* created_at is only ever compared (ORDER BY created_at), so the table
\* keeps, for each row, the rank of its timestamp among the timestamps of
\* the table: 0 for the earliest second, 1 for the next one, ...
Renumber(table) ==
  [i \in 1..Len(table) |->
     [table[i] EXCEPT !.created_at =
        Cardinality({table[j].created_at : j \in 1..Len(table)}
                    \cap 0..(table[i].created_at - 1))]]

\* CURRENT_TIMESTAMP of the latest insert (time does not run backwards).
Latest(table) == IF table = <<>> THEN 0 ELSE table[Len(table)].created_at

\* CURRENT_TIMESTAMP now: the second of the latest insert, or a later one.
Now(table) == {Latest(table), Latest(table) + 1}

\* INSERT OR IGNORE: a tweet that has a row keeps it.
InsertOrReplace_Ignore(table, row) ==
  IF \E i \in 1..Len(table) : table[i].tweet_id = row.tweet_id
  THEN table
  ELSE Renumber(Append(table, row))

\* INSERT OR REPLACE on the UNIQUE tweet_id: the old row of that tweet is
\* deleted and the new one inserted with a fresh rowid and created_at.
InsertOrReplace(table, row) ==
  Renumber(Append(SelectSeq(table, LAMBDA r : r.tweet_id # row.tweet_id), row))

\* save_sentiment never raises: a database error is printed and the table
\* is left as it was.
save_sentiment(table, entry, analysis, now, db_ok) ==
  IF db_ok
  THEN InsertOrReplace(table,
         Row(entry, analysis.tickers, DictGet(analysis.sentiment, "NEUTRAL"), now))
  ELSE table

\* tickers LIKE '%"<ticker>"%' on the JSON list: some element of the list is
\* the ticker, compared as LIKE compares (ASCII case-insensitive).  A stored
\* "$BTC" does not match the pattern "BTC": the quote must precede the B.
LikeTicker(tickers, ticker) ==
  \E i \in 1..Len(tickers) : Upper(tickers[i]) = Upper(ticker)

\* The query of get_last_sentiment answered without idx_created_at: a table
\* scan and a sort, which leaves rows of equal created_at in rowid order, so
\* of the rows with the latest timestamp the one inserted first is returned.
get_last_sentiment_Sorted(table, ticker) ==
  LET hits == {i \in 1..Len(table) : LikeTicker(table[i].tickers, ticker)}
      latest == {i \in hits : \A j \in hits : table[j].created_at <= table[i].created_at}
      first == {i \in latest : \A j \in latest : i <= j}
  IN  IF hits = {} THEN {None} ELSE {table[i].sentiment : i \in first}

\* get_last_sentiment: ORDER BY created_at DESC LIMIT 1.  The query names no
\* second sort key; SQLite answers it by walking idx_created_at (created by
\* init_db) backwards, and in that index rows of equal created_at lie in
\* rowid order: of the rows with the latest timestamp the one inserted last
\* is returned.  The result is given as a set of one element.  (The query
\* is taken to succeed; when it raises, the function prints the error and
\* returns None as for a symbol without a row.)
get_last_sentiment(table, ticker) ==
  LET hits == {i \in 1..Len(table) : LikeTicker(table[i].tickers, ticker)}
      latest == {i \in hits : \A j \in hits : table[j].created_at <= table[i].created_at}
      last == {i \in latest : \A j \in latest : j <= i}
  IN  IF hits = {} THEN {None} ELSE {table[i].sentiment : i \in last}

\* ------------------------------------------------------------ flip detector
Flip(ticker, old, new) == [ticker |-> ticker, old |-> old, new |-> new]

\* The loop of check_sentiment_flip over the tickers from position i on:
\* the flip lists it can build.
RECURSIVE FlipLoop(_, _, _, _)
FlipLoop(table, tickers, new_sentiment, i) ==
  IF i > Len(tickers) THEN {<<>>}
  ELSE LET ticker_upper == Normalize(tickers[i])
           rest == FlipLoop(table, tickers, new_sentiment, i + 1)
       IN  UNION {
             IF old_sentiment # None /\ old_sentiment # "NEUTRAL"
                /\ old_sentiment # new_sentiment
             THEN {<<Flip(ticker_upper, old_sentiment, new_sentiment)>> \o r : r \in rest}
             ELSE rest
             : old_sentiment \in get_last_sentiment(table, ticker_upper)}

\* check_sentiment_flip: the possible outcomes, each either a raised
\* exception (.upper() of a JSON null) or a list of flips.
check_sentiment_flip(table, analysis) ==
  IF ~FLIP_ALERTS_ENABLED THEN {[raised |-> FALSE, flips |-> <<>>]}
  ELSE IF DictGet(analysis.sentiment, "NEUTRAL") = None
       THEN {[raised |-> TRUE, flips |-> <<>>]}
  ELSE LET new_sentiment == Upper(DictGet(analysis.sentiment, "NEUTRAL"))
       IN  IF new_sentiment = "NEUTRAL" THEN {[raised |-> FALSE, flips |-> <<>>]}
           ELSE {[raised |-> FALSE, flips |-> f] :
                   f \in FlipLoop(table, analysis.tickers, new_sentiment, 1)}

\* ------------------------------------------------------------- classifier
\* What the Groq call can do for one tweet: raise (network, auth, timeout),
\* return text that is not JSON, or return a JSON object.
NoAnalysis == [raised |-> FALSE, ok |-> FALSE, tickers |-> <<>>, sentiment |-> Absent]

Reply(kind, tickers, sentiment) ==
  [kind |-> kind, tickers |-> tickers, sentiment |-> sentiment]

\* The replies the polling model draws from: no reply, no tickers, one
\* ticker with a BUY or SELL signal, one ticker with a null signal.
GroqReplies ==
  {Reply(k, <<>>, Absent) : k \in {"raises", "not_json"}}
  \cup {Reply("json", <<>>, "BUY")}
  \cup {Reply("json", <<"BTC">>, s) : s \in {"BUY", "SELL", None}}

\* analyze_sentiment without its try/except: a failed call propagates.
analyze_sentiment_Uncaught(reply) ==
  IF reply.kind = "json"
  THEN [raised |-> FALSE, ok |-> TRUE, tickers |-> reply.tickers,
        sentiment |-> reply.sentiment]
  ELSE [raised |-> TRUE, ok |-> FALSE, tickers |-> <<>>, sentiment |-> Absent]

\* analyze_sentiment: json.loads of the reply; every exception of the call
\* or of the parse is caught and None returned, so nothing is raised.
analyze_sentiment(reply) ==
  IF reply.kind = "json"
  THEN [raised |-> FALSE, ok |-> TRUE, tickers |-> reply.tickers,
        sentiment |-> reply.sentiment]
  ELSE NoAnalysis

\* ------------------------------------------------------------------ state
VARIABLES
  feed,               \* the account's RSS entries, newest first
  cursor_file,        \* LAST_TWEET_FILE: FileNotFound, EmptyText or an id
  sentiment_history,  \* the table of DB_PATH
  ticker_filters,     \* TICKER_FILTERS, read from the environment at start
  pc,                 \* where poll_feed is: idle between ticks, or a step
  entries,            \* poll_feed: feed.entries of the running tick
  last_id,            \* poll_feed: what load_last_id returned
  new_entries,        \* poll_feed: the entries ahead of last_id
  idx,                \* poll_feed: position in reversed(new_entries)
  analysis,           \* poll_feed: the analysis of the current entry
  flips,              \* poll_feed: the flips of the current entry
  alert_idx,          \* poll_feed: flip alerts sent for the current entry
  handed,             \* history: entries the loop of this tick has taken up
  start_cursor,       \* history: cursor_file when this tick began
  failed,             \* history: enrichment failures of this tick
  notified,           \* history: entries whose base notification was sent
  resent,             \* history: entries whose base notification was sent again
  result,             \* history: how the last tick ended
  loop_tasks,         \* tasks of the poll_feed loop that start() launched
  reconnects          \* history: on_ready / on_resumed seen during this tick

vars == <<feed, cursor_file, sentiment_history, ticker_filters, pc,
          entries, last_id, new_entries, idx, analysis, flips, alert_idx,
          handed, start_cursor, failed, notified, resent, result,
          loop_tasks, reconnects>>

durable == <<cursor_file, sentiment_history>>
chat == <<notified, resent>>
locals == <<entries, last_id, new_entries, idx, analysis, flips, alert_idx,
            handed, start_cursor, failed, reconnects>>
\* the locals the for loop does not assign
frame == <<entries, last_id, new_entries, start_cursor, reconnects>>

FilterChoices == {<<>>, <<"$eth">>}

NoLocals ==
  /\ entries = <<>>
  /\ last_id = NoId
  /\ new_entries = <<>>
  /\ idx = 0
  /\ analysis = NoAnalysis
  /\ flips = <<>>
  /\ alert_idx = 0
  /\ handed = <<>>
  /\ start_cursor = FileNotFound
  /\ failed = {}
  /\ reconnects = {}

\* The process has started and the client is connecting: on_ready has not
\* run yet, so the poll_feed loop is not launched.
Init ==
  /\ feed = <<>>
  /\ cursor_file = FileNotFound
  /\ sentiment_history = <<>>
  /\ ticker_filters \in FilterChoices
  /\ pc = "idle"
  /\ NoLocals
  /\ notified = {}
  /\ resent = {}
  /\ result = "none"
  /\ loop_tasks = 0

\* ------------------------------------------------------------ poll_feed
\* The diff loop with "continue" in place of "break".
NewEntries_Continue(es, last) == SelectSeq(es, LAMBDA e : e # last)

\* The diff that stops at the last entry whose id is last_id.
NewEntries_UpToLast(es, last) ==
  LET at == {i \in 1..Len(es) : es[i] = last}
      stop == IF at = {} THEN Len(es) + 1
              ELSE CHOOSE i \in at : \A j \in at : j <= i
  IN  SubSeq(es, 1, stop - 1)

\* The entries ahead of the first one whose id is last_id.
NewEntries(es, last) ==
  LET at == {i \in 1..Len(es) : es[i] = last}
      stop == IF at = {} THEN Len(es) + 1
              ELSE CHOOSE i \in at : \A j \in at : i <= j
  IN  SubSeq(es, 1, stop - 1)

\* The loop without reversed(): newest first.
ProcessingOrder_NewestFirst(new) == new

\* for entry in reversed(new_entries)
ProcessingOrder(new) == Reverse(new)

CurrentEntry == ProcessingOrder(new_entries)[idx]

\* poll_feed returns: its locals are gone, the loop sleeps until next tick.
Return(how) ==
  /\ pc' = "idle"
  /\ result' = how
  /\ entries' = <<>>
  /\ last_id' = NoId
  /\ new_entries' = <<>>
  /\ idx' = 0
  /\ analysis' = NoAnalysis
  /\ flips' = <<>>
  /\ alert_idx' = 0
  /\ handed' = <<>>
  /\ start_cursor' = FileNotFound
  /\ failed' = {}
  /\ reconnects' = {}

\* An except clause that checkpoints the snapshot head before giving up.
Abort_Checkpoint(why) ==
  /\ Return(why)
  /\ cursor_file' = entries[1]
  /\ UNCHANGED sentiment_history

\* except Exception: the error is printed, the tick ends, and neither the
\* cursor file nor the table is touched.
Abort(why) ==
  /\ Return(why)
  /\ UNCHANGED durable

\* entries[-1].id: the oldest entry of the snapshot.
NewestId_Oldest(es) == es[Len(es)]

\* entries[0].id, the id poll_feed saves
NewestId(es) == es[1]

\* the end of one iteration of the for loop; `kept` is what the local
\* `analysis` holds when the next iteration begins.
NextEntry(kept) ==
  /\ analysis' = kept
  /\ flips' = <<>>
  /\ alert_idx' = 0
  /\ IF idx < Len(new_entries)
     THEN pc' = "send" /\ idx' = idx + 1
     ELSE pc' = "save" /\ idx' = idx

\* client.get_channel returns None: "Channel not found", the tick returns.
PollNoChannel ==
  /\ loop_tasks >= 1
  /\ pc = "idle"
  /\ Return("no_channel")
  /\ UNCHANGED <<feed, durable, ticker_filters, loop_tasks, chat>>

\* An empty fetch taken for an account that starts over: the cursor file is
\* removed before the tick returns.
PollNoFeed_ForgetCursor ==
  /\ loop_tasks >= 1
  /\ pc = "idle"
  /\ Return(IF feed = <<>> THEN "quiet" ELSE "fetch_failed")
  /\ cursor_file' = FileNotFound
  /\ UNCHANGED <<feed, sentiment_history, ticker_filters, loop_tasks, chat>>

\* Every Nitter instance failed or returned no entries: the tick returns.
PollNoFeed ==
  /\ loop_tasks >= 1
  /\ pc = "idle"
  /\ Return(IF feed = <<>> THEN "quiet" ELSE "fetch_failed")
  /\ UNCHANGED <<feed, durable, ticker_filters, loop_tasks, chat>>

\* A tick that writes the id of the snapshot head as soon as the diff has
\* found new entries, before the loop.
PollFeed_SaveFirst ==
  /\ loop_tasks >= 1
  /\ pc = "idle"
  /\ feed # <<>>
  /\ LET last == load_last_id(cursor_file)
         new == NewEntries(feed, last)
     IN  IF new = <<>>
         THEN Return("no_new") /\ UNCHANGED cursor_file
         ELSE /\ entries' = feed
              /\ last_id' = last
              /\ new_entries' = new
              /\ idx' = 1
              /\ pc' = "send"
              /\ result' = "running"
              /\ start_cursor' = cursor_file
              /\ cursor_file' = NewestId(feed)
              /\ UNCHANGED <<analysis, flips, alert_idx, handed, failed,
                             reconnects>>
  /\ UNCHANGED <<feed, sentiment_history, ticker_filters, loop_tasks, chat>>

\* A Nitter instance answered: load the cursor and find the new entries.
PollFeed ==
  /\ loop_tasks >= 1
  /\ pc = "idle"
  /\ feed # <<>>
  /\ LET last == load_last_id(cursor_file)
         new == NewEntries(feed, last)
     IN  IF new = <<>>
         THEN Return("no_new")
         ELSE /\ entries' = feed
              /\ last_id' = last
              /\ new_entries' = new
              /\ idx' = 1
              /\ pc' = "send"
              /\ result' = "running"
              /\ start_cursor' = cursor_file
              /\ UNCHANGED <<analysis, flips, alert_idx, handed, failed,
                             reconnects>>
  /\ UNCHANGED <<feed, durable, ticker_filters, loop_tasks, chat>>

\* message = await channel.send(twitter_url)
SendBase ==
  /\ pc = "send"
  /\ \/ /\ notified' = notified \cup {CurrentEntry}
        /\ resent' = resent \cup ({CurrentEntry} \cap notified)
        /\ handed' = Append(handed, CurrentEntry)
        /\ IF SENTIMENT_ENABLED
           THEN pc' = "enrich" /\ UNCHANGED <<idx, analysis, flips, alert_idx>>
           ELSE NextEntry(NoAnalysis)
        /\ UNCHANGED <<durable, frame, failed, result>>
     \/ /\ Abort("chat_error")
        /\ UNCHANGED chat
  /\ UNCHANGED <<feed, ticker_filters, loop_tasks>>

\* analyze_sentiment, should_analyze, save_sentiment, check_sentiment_flip:
\* the code between the base notification and the next await.  An analysis
\* the filter turns away stays in `analysis` until the next entry's.
Enrich ==
  /\ pc = "enrich"
  /\ \E reply \in GroqReplies, db_ok \in BOOLEAN, now \in Now(sentiment_history) :
       LET a == analyze_sentiment(reply)
           saved == save_sentiment(sentiment_history, CurrentEntry, a, now, db_ok)
       IN  IF a.raised
           THEN Abort("analyze_error")
           ELSE IF a.ok /\ a.tickers # <<>>
                   /\ should_analyze(ticker_filters, a.tickers)
           THEN /\ sentiment_history' = saved
                /\ cursor_file' = cursor_file
                /\ \E out \in check_sentiment_flip(saved, a) :
                     IF out.raised
                     THEN Return("flip_error")
                     ELSE /\ analysis' = a
                          /\ flips' = out.flips
                          /\ alert_idx' = 0
                          /\ pc' = IF out.flips = <<>> THEN "thread" ELSE "alert"
                          /\ failed' = IF db_ok THEN failed
                                       ELSE failed \cup {"upsert"}
                          /\ UNCHANGED <<frame, idx, handed, result>>
           ELSE /\ NextEntry(IF a.ok /\ a.tickers # <<>> THEN a ELSE NoAnalysis)
                /\ failed' = IF a.ok THEN failed ELSE failed \cup {"classify"}
                /\ UNCHANGED <<durable, frame, handed, result>>
  /\ UNCHANGED <<feed, ticker_filters, loop_tasks, chat>>

\* await send_flip_alert(channel, flip["ticker"], flip["old"], flip["new"])
SendFlipAlert ==
  /\ pc = "alert"
  /\ \/ /\ alert_idx' = alert_idx + 1
        /\ pc' = IF alert_idx' = Len(flips) THEN "thread" ELSE "alert"
        /\ UNCHANGED <<durable, frame, idx, analysis, flips, handed, failed,
                       result>>
     \/ Abort("chat_error")
  /\ UNCHANGED <<feed, ticker_filters, loop_tasks, chat>>

\* await message.create_thread(...); await thread.send(embed=embed)
SendAnalysis ==
  /\ pc = "thread"
  /\ \/ /\ NextEntry(NoAnalysis)
        /\ UNCHANGED <<durable, frame, handed, failed, result>>
     \/ Abort("chat_error")
  /\ UNCHANGED <<feed, ticker_filters, loop_tasks, chat>>

\* save_last_id(entries[0].id), the last statement of the try block.
SaveCursor ==
  /\ pc = "save"
  /\ \E outcome \in SaveOutcomes :
       LET r == save_last_id(cursor_file, NewestId(entries), outcome)
       IN  /\ cursor_file' = r.file
           /\ Return(IF r.raised THEN "cursor_error" ELSE "ok")
  /\ UNCHANGED <<feed, sentiment_history, ticker_filters, loop_tasks, chat>>

\* The account posts a tweet: the feed gets a new first entry.
PostTweet ==
  /\ Len(feed) < MaxItems
  /\ feed' = <<Len(feed) + 1>> \o feed
  /\ UNCHANGED <<durable, ticker_filters, loop_tasks, pc, locals, chat, result>>

\* poll_feed.start() that launches a task whether or not one is running.
OnReady_Unguarded ==
  /\ loop_tasks' = loop_tasks + 1
  /\ reconnects' = IF pc # "idle" THEN reconnects \cup {"ready"} ELSE reconnects
  /\ UNCHANGED <<feed, durable, ticker_filters, pc, entries, last_id,
                 new_entries, idx, analysis, flips, alert_idx, handed,
                 start_cursor, failed, chat, result>>

\* on_ready (the gateway sent READY, at login and after a reconnect that
\* could not resume): init_db, then poll_feed.start().  start() launches
\* the loop's task unless a task is launched and not done; then it raises
\* RuntimeError, which ends the handler and leaves the loop as it is.
OnReady ==
  /\ loop_tasks' = IF loop_tasks = 0 THEN 1 ELSE loop_tasks
  /\ reconnects' = IF pc # "idle" THEN reconnects \cup {"ready"} ELSE reconnects
  /\ UNCHANGED <<feed, durable, ticker_filters, pc, entries, last_id,
                 new_entries, idx, analysis, flips, alert_idx, handed,
                 start_cursor, failed, chat, result>>

\* on_resumed: if not poll_feed.is_running(): poll_feed.start()
OnResumed ==
  /\ loop_tasks' = IF loop_tasks = 0 THEN 1 ELSE loop_tasks
  /\ reconnects' = IF pc # "idle" THEN reconnects \cup {"resumed"} ELSE reconnects
  /\ UNCHANGED <<feed, durable, ticker_filters, pc, entries, last_id,
                 new_entries, idx, analysis, flips, alert_idx, handed,
                 start_cursor, failed, chat, result>>

\* The process dies and is started again.  The files stay; everything in
\* memory is gone, and the loop is not launched until on_ready runs.
Restart ==
  /\ Return("none")
  /\ loop_tasks' = 0
  /\ UNCHANGED <<feed, durable, ticker_filters, chat>>

Tick ==
  \/ PollNoChannel
  \/ PollNoFeed
  \/ PollFeed
  \/ SendBase
  \/ Enrich
  \/ SendFlipAlert
  \/ SendAnalysis
  \/ SaveCursor

Next == Tick \/ PostTweet \/ OnReady \/ OnResumed \/ Restart

Spec == Init /\ [][Next]_vars

TypeOK ==
  /\ feed \in Seq(Ids)
  /\ cursor_file \in {FileNotFound, EmptyText} \cup Ids
  /\ pc \in {"idle", "send", "enrich", "alert", "thread", "save"}
  /\ idx \in 0..MaxItems
  /\ notified \subseteq Ids
  /\ resent \subseteq notified
  /\ loop_tasks \in 0..1
  /\ reconnects \subseteq {"ready", "resumed"}

\* ------------------------------------------------------- ledger and flips
\* save_sentiment and check_sentiment_flip on their own, over the kinds of
\* signal and of ticker spelling the classifier can put into its JSON: the
\* three signals of the prompt and one outside them, a symbol as it is looked
\* up and a list with a symbol in lower case behind a "$".
MaxRows == 2       \* tweets with a record in the ledger specification

SignalValues == {"BUY", "SELL", "NEUTRAL", "HOLD"}

Analyses ==
  {[raised |-> FALSE, ok |-> TRUE, tickers |-> <<"BTC">>, sentiment |-> sg] :
     sg \in SignalValues}
  \cup {[raised |-> FALSE, ok |-> TRUE, tickers |-> <<"$btc", "ETH">>,
          sentiment |-> sg] : sg \in {"BUY", "SELL"}}

InitLedger ==
  /\ Init
  /\ ticker_filters = <<>>

\* save_sentiment(entry, analysis) for some tweet and some analysis; the
\* database takes the row or fails.
LedgerSave ==
  /\ \/ \E tweet \in 1..MaxRows, a \in Analyses, now \in Now(sentiment_history) :
          /\ sentiment_history' = save_sentiment(sentiment_history, tweet, a, now, TRUE)
          /\ analysis' = a
          /\ handed' = <<tweet>>
          /\ result' = "saved"
     \/ /\ \E tweet \in 1..MaxRows, a \in Analyses :
            sentiment_history' = save_sentiment(sentiment_history, tweet, a, 0, FALSE)
        /\ analysis' = NoAnalysis
        /\ handed' = <<>>
        /\ result' = "save_failed"
  /\ flips' = <<>>
  /\ UNCHANGED <<feed, cursor_file, ticker_filters, loop_tasks, pc, frame, idx,
                 alert_idx, failed, chat>>

\* flips = check_sentiment_flip(analysis) for some analysis.
LedgerCheck ==
  /\ \E a \in Analyses :
       \E out \in check_sentiment_flip(sentiment_history, a) :
         /\ analysis' = a
         /\ flips' = out.flips
         /\ result' = IF out.raised THEN "flip_error" ELSE "checked"
  /\ handed' = <<>>
  /\ UNCHANGED <<feed, durable, ticker_filters, loop_tasks, pc, frame, idx,
                 alert_idx, failed, chat>>

NextLedger == LedgerSave \/ LedgerCheck

LedgerSpec == InitLedger /\ [][NextLedger]_vars

\* ------------------------------------------------------ records in order
\* What poll_feed does with the analysis of one entry after another once the
\* filter let it pass: save_sentiment(entry, analysis), then
\* flips = check_sentiment_flip(analysis).  Every record names the same
\* symbol, written as the classifier may write it.
MaxRecords == 3    \* entries the record specification processes

RecordAnalyses ==
  {[raised |-> FALSE, ok |-> TRUE, tickers |-> t, sentiment |-> sg] :
     t \in {<<"BTC">>, <<"$BTC">>}, sg \in {"BUY", "SELL", "NEUTRAL"}}

InitRecord ==
  /\ Init
  /\ ticker_filters = <<>>

ProcessRecord ==
  /\ Len(handed) < MaxRecords
  /\ \E a \in RecordAnalyses, now \in Now(sentiment_history) :
       LET entry == Len(handed) + 1
           saved == save_sentiment(sentiment_history, entry, a, now, TRUE)
       IN  /\ should_analyze(ticker_filters, a.tickers)
           /\ handed' = Append(handed, entry)
           /\ sentiment_history' = saved
           /\ \E out \in check_sentiment_flip(saved, a) :
                /\ analysis' = a
                /\ flips' = out.flips
                /\ result' = IF out.raised THEN "flip_error" ELSE "processed"
  /\ UNCHANGED <<feed, cursor_file, ticker_filters, loop_tasks, pc, frame, idx, alert_idx,
                 failed, chat>>

NextRecord == ProcessRecord

RecordSpec == InitRecord /\ [][NextRecord]_vars

\* ------------------------------------------------------- diff of a snapshot
\* The beginning of the try block of poll_feed on its own, for every
\* snapshot a Nitter instance can answer with (any ids in any order, an id
\* more than once) and every content of the cursor file: load_last_id, the
\* diff loop, and the order in which the for loop takes the new entries up.
MaxSnapshot == 3   \* entries of a snapshot, and ids they are drawn from

Snapshots == UNION {[1..n -> 1..MaxSnapshot] : n \in 1..MaxSnapshot}
CursorFiles == {FileNotFound, EmptyText} \cup 1..MaxSnapshot

InitDiff ==
  /\ feed \in Snapshots
  /\ cursor_file \in CursorFiles
  /\ sentiment_history = <<>>
  /\ ticker_filters = <<>>
  /\ pc = "idle"
  /\ NoLocals
  /\ notified = {}
  /\ resent = {}
  /\ result = "none"
  /\ loop_tasks = 1

DiffStep ==
  /\ result = "none"
  /\ LET last == load_last_id(cursor_file)
         new == NewEntries(feed, last)
     IN  /\ entries' = feed
         /\ last_id' = last
         /\ new_entries' = new
         /\ handed' = ProcessingOrder(new)
         /\ result' = IF new = <<>> THEN "no_new" ELSE "diffed"
  /\ UNCHANGED <<feed, durable, ticker_filters, loop_tasks, pc, idx, analysis,
                 flips, alert_idx, start_cursor, failed, reconnects, chat>>

NextDiff == DiffStep

DiffSpec == InitDiff /\ [][NextDiff]_vars

\* ---------------------------------------------------------------- fairness
\* The tasks.loop timer keeps firing and every await of a tick returns.
FairSpec == Spec /\ WF_vars(Tick)

\* ================================================================= claims
Elems(seq) == {seq[i] : i \in 1..Len(seq)}

\* The snapshot of the running tick read as [n_k, ..., n_1, cursorItem, ...]:
\* k is the number of entries before the first one whose id is the cursor.
AheadCount ==
  Cardinality({i \in 1..Len(entries) : \A j \in 1..i : entries[j] # last_id})

\* C1 - Order preservation: the entries a tick takes up are n_1, n_2, ...
\* in that order, nothing at or behind the cursor position is taken up, and
\* when the loop is over all of n_1 .. n_k have been taken up.
C1_OrderPreservation ==
  pc # "idle" =>
    /\ Len(handed) <= AheadCount
    /\ \A m \in 1..Len(handed) : handed[m] = entries[AheadCount + 1 - m]
    /\ pc = "save" => Len(handed) = AheadCount

C1_Witness ==
  /\ pc = "save"
  /\ Len(handed) >= 2
  /\ handed[1] < handed[2]

\* The most recent signal for a ticker as the ledger rule has it (latest
\* created_at, the later insert on a tie), among rows of other tweets.
PriorSignal(table, tweet, ticker) ==
  LET hits == {i \in 1..Len(table) :
                 /\ table[i].tweet_id # tweet
                 /\ \E t \in Elems(table[i].tickers) : Normalize(t) = ticker}
      top == CHOOSE i \in hits : \A j \in hits :
               \/ table[j].created_at < table[i].created_at
               \/ table[j].created_at = table[i].created_at /\ j <= i
  IN  IF hits = {} THEN None ELSE table[top].sentiment

\* C2 - Flip detection compares against the records of earlier items: when
\* the latest record of another item for BTC says BUY and the current item
\* is classified [BTC] / SELL, the flips are exactly {BTC, BUY, SELL} and
\* one alert goes out before the analysis thread.
C2_FlipAgainstEarlierRecord ==
  ( /\ pc \in {"alert", "thread"}
    /\ analysis.tickers = <<"BTC">>
    /\ analysis.sentiment = "SELL"
    /\ PriorSignal(sentiment_history, CurrentEntry, "BTC") = "BUY" )
  => /\ flips = <<Flip("BTC", "BUY", "SELL")>>
     /\ pc = "thread" => alert_idx = 1

\* C3 - No duplicate notifications: no entry has its base notification sent
\* more than once (ids are stable and the feed only prepends in this model).
C3_NoDuplicateNotification ==
  resent = {}

\* C4 - Idempotent restart: a tick on a snapshot whose head is the stored
\* cursor finds no new entries; it sends nothing, writes no record and does
\* not rewrite the cursor file.
C4_IdempotentRestart ==
  [][ (PollFeed /\ cursor_file = feed[1]) =>
        /\ pc' = "idle"
        /\ result' = "no_new"
        /\ UNCHANGED <<cursor_file, sentiment_history, notified, resent>> ]_vars

C4_Witness ==
  /\ result = "no_new"
  /\ pc = "idle"
  /\ Len(feed) >= 2
  /\ cursor_file = feed[1]

\* C5 - Cursor advances to the snapshot head: a tick with new entries that
\* ends without an error leaves the id of the snapshot's first entry in the
\* cursor file, and that is what the next load returns.
C5_CursorAdvancesToHead ==
  [][ (result = "running" /\ result' = "ok") =>
        /\ cursor_file' = entries[1]
        /\ load_last_id(cursor_file') = entries[1] ]_vars

C5_Witness ==
  /\ result = "ok"
  /\ Len(feed) >= 2
  /\ cursor_file = feed[1]
  /\ \E i \in notified : \A r \in Elems(sentiment_history) : r.tweet_id # i

\* C6 - A failed base notification does not end the cycle: no tick ends with
\* the chat error of a base notification.
C6_BaseFailureIsPerItem ==
  [][ pc = "send" => result' # "chat_error" ]_vars

\* C7 - Partial-failure containment: a classification that fails and an
\* upsert that fails never end the tick; a tick ends only by an error of the
\* chat, of the cursor file or of the flip check, by a crash, or complete,
\* with every new entry notified and the cursor at the snapshot head.  A
\* notification once sent stays sent.
C7_PartialFailureContained ==
  [][ /\ notified \subseteq notified'
      /\ failed' # failed /\ failed' # {} =>
           /\ result' = "running"
           /\ pc' \in {"send", "save", "alert", "thread"}
      /\ (result = "running" /\ result' # "running") =>
           \/ result' \in {"chat_error", "cursor_error", "flip_error", "none"}
           \/ /\ result' = "ok"
              /\ cursor_file' = entries[1]
              /\ Elems(new_entries) \subseteq notified' ]_vars

C7_Witness ==
  /\ pc = "save"
  /\ failed = {"classify", "upsert"}
  /\ Len(new_entries) >= 2
  /\ Elems(new_entries) \subseteq notified

\* C8 - A tick that ends by an error inside its loop leaves the cursor file
\* as it was when the tick began, so the next tick on the same snapshot finds
\* the same new entries.
C8_AbortKeepsCursor ==
  [][ (result = "running" /\ result' \in {"chat_error", "analyze_error", "flip_error"}) =>
        /\ cursor_file' = start_cursor
        /\ NewEntries(entries, load_last_id(cursor_file')) = new_entries ]_vars

C8_Witness ==
  /\ result \in {"chat_error", "flip_error"}
  /\ notified # {}
  /\ cursor_file \in Ids
  /\ cursor_file # feed[1]

\* The results a tick has when the feed fetch, the chat or the cursor file
\* failed, or when the process was restarted.
FaultResults == {"no_channel", "fetch_failed", "chat_error", "cursor_error", "none"}

\* C9 - At-least-once delivery: if from some point on no fetch, chat or
\* cursor-file failure and no restart happens, every entry of the feed gets
\* its base notification and the cursor reaches the head of the feed for good.
C9_AtLeastOnceDelivery ==
  <>[](result \notin FaultResults) =>
    /\ \A i \in Ids : (i \in Elems(feed)) ~> (i \in notified)
    /\ <>[](feed = <<>> \/ load_last_id(cursor_file) = feed[1])

\* C10 - Flip rule: after a flip check of a record with new signal N, a flip
\* for a symbol s of the record is in the result exactly when the prior
\* signal P the ledger returns for s and N are both BUY or SELL and differ.
C10_FlipRule ==
  result = "checked" =>
    LET N == Upper(DictGet(analysis.sentiment, "NEUTRAL"))
        IsFlip(P) == P \in {"BUY", "SELL"} /\ N \in {"BUY", "SELL"} /\ P # N
    IN  \A s \in {Normalize(t) : t \in Elems(analysis.tickers)} :
          LET priors == get_last_sentiment(sentiment_history, s)
              flipped == \E k \in 1..Len(flips) : flips[k].ticker = s
          IN  /\ flipped => \E P \in priors : IsFlip(P)
              /\ (\A P \in priors : IsFlip(P)) => flipped

\* The rows of the table whose symbols, normalized, contain s, in the order
\* in which they were inserted.
RowsFor(table, s) ==
  SelectSeq(table, LAMBDA r : \E t \in Elems(r.tickers) : Normalize(t) = s)

\* C11 - NEUTRAL masks earlier history: a NEUTRAL record produces no flip,
\* and when the records for BTC are, in the order they were processed, a BUY
\* or SELL, then a NEUTRAL, then the opposite of the first, the third
\* produces no flip either.
C11_NeutralMasksHistory ==
  result = "processed" =>
    LET rows == RowsFor(sentiment_history, "BTC")
        n == Len(rows)
    IN  /\ analysis.sentiment = "NEUTRAL" => flips = <<>>
        /\ ( /\ n >= 3
             /\ rows[n].tweet_id = handed[Len(handed)]
             /\ rows[n - 2].sentiment \in {"BUY", "SELL"}
             /\ rows[n - 1].sentiment = "NEUTRAL"
             /\ rows[n].sentiment \in {"BUY", "SELL"} \ {rows[n - 2].sentiment} )
           => flips = <<>>

\* Some symbol of the item is on the allow-list, compared without regard to
\* case and to a leading "$".
SymbolMatches(filters, tickers) ==
  \E f \in Elems(filters), t \in Elems(tickers) : Normalize(f) = Normalize(t)

\* C12 - Filter exclusion: an item classified with symbols none of which is
\* on a non-empty allow-list has no record written and the loop goes on to
\* the next entry (no flip alert, no analysis thread) with the item's base
\* notification sent; with an empty allow-list, or a symbol on the list, the
\* item goes on to its alerts and its thread.
C12_FilterExclusion ==
  [][ ( /\ pc = "enrich" /\ pc' \notin {"enrich", "idle"}
        /\ analysis'.ok /\ analysis'.tickers # <<>> ) =>
        IF ticker_filters # <<>> /\ ~SymbolMatches(ticker_filters, analysis'.tickers)
        THEN /\ sentiment_history' = sentiment_history
             /\ pc' \in {"send", "save"}
             /\ CurrentEntry \in notified'
        ELSE pc' \in {"alert", "thread"} ]_vars

C12_Witness ==
  /\ pc = "save"
  /\ ticker_filters = <<"$eth">>
  /\ analysis.ok
  /\ analysis.tickers = <<"BTC">>
  /\ Len(new_entries) >= 2
  /\ Elems(new_entries) \subseteq notified
  /\ sentiment_history = <<>>

\* C13 - Empty feed is quiescent: a tick in which every fetch fails or gives
\* no entries returns (nothing is raised), sends nothing to the channel and
\* leaves the cursor file and the table as they were.
C13_EmptyFeedQuiescent ==
  [][ PollNoFeed =>
        /\ pc' = "idle"
        /\ result' \in {"quiet", "fetch_failed"}
        /\ UNCHANGED <<cursor_file, sentiment_history, notified, resent>> ]_vars

C13_Witness ==
  /\ pc = "idle"
  /\ result = "fetch_failed"
  /\ cursor_file \in Ids
  /\ cursor_file # feed[1]
  /\ sentiment_history # <<>>

OtherRows(table, t) ==
  LET others == SelectSeq(table, LAMBDA r : r.tweet_id # t)
  IN  [i \in 1..Len(others) |->
         <<others[i].tweet_id, others[i].tickers, others[i].sentiment>>]

\* C15 - Ledger uniqueness under upsert: no two rows have the same tweet id,
\* and a save that succeeds leaves exactly one row for its tweet, with the
\* symbols and the signal of that save and nothing of the row it replaces,
\* and leaves the rows of the other tweets as they were.
C15_UpsertReplaces ==
  [][ /\ \A i, j \in 1..Len(sentiment_history') :
           sentiment_history'[i].tweet_id = sentiment_history'[j].tweet_id => i = j
      /\ (result' = "saved" /\ handed' # <<>>) =>
           LET t == handed'[1]
               n == Len(sentiment_history')
           IN  /\ n >= 1
               /\ sentiment_history'[n].tweet_id = t
               /\ sentiment_history'[n].tickers = analysis'.tickers
               /\ sentiment_history'[n].sentiment = analysis'.sentiment
               /\ OtherRows(sentiment_history', t) = OtherRows(sentiment_history, t)
    ]_vars

\* a tweet saved a second time, with other symbols and another signal
C15_Witness ==
  /\ result = "saved"
  /\ Len(sentiment_history) = 2
  /\ sentiment_history[1].tweet_id = 2
  /\ sentiment_history[2].tweet_id = 1
  /\ sentiment_history[2].created_at > sentiment_history[1].created_at
  /\ analysis.tickers = <<"$btc", "ETH">>
  /\ analysis.sentiment = "SELL"

\* The signal of the row to return for s by the ledger rule: among the rows
\* whose stored symbol list has s as an element (letters compared without
\* regard to case), the latest created_at, and of equal ones the row
\* inserted last.
MostRecent(table, s) ==
  LET hits == {i \in 1..Len(table) :
                 \E t \in Elems(table[i].tickers) : Upper(t) = s}
      top == CHOOSE i \in hits : \A j \in hits :
               \/ table[j].created_at < table[i].created_at
               \/ table[j].created_at = table[i].created_at /\ j <= i
  IN  IF hits = {} THEN None ELSE table[top].sentiment

C17_LookupReflectsUpserts ==
  \A s \in {"BTC", "ETH"} :
    LET mentions == {i \in 1..Len(sentiment_history) :
                       \E t \in Elems(sentiment_history[i].tickers) :
                         Normalize(t) = s}
        got == get_last_sentiment(sentiment_history, s)
    IN  /\ (got # {None}) <=> (mentions # {})
        /\ got # {None} => \E i \in mentions : sentiment_history[i].sentiment \in got

\* C18 - Diff result: the new entries of a tick are the entries of the
\* snapshot ahead of the first one whose id is the stored cursor; with no
\* cursor (no file, an empty file) or a cursor that is not in the snapshot
\* they are the whole snapshot.
C18_DiffResult ==
  result \in {"diffed", "no_new"} =>
    IF cursor_file \in {FileNotFound, EmptyText} \/ cursor_file \notin Elems(entries)
    THEN new_entries = entries
    ELSE \E k \in 1..Len(entries) :
           /\ entries[k] = cursor_file
           /\ \A j \in 1..(k - 1) : entries[j] # cursor_file
           /\ new_entries = SubSeq(entries, 1, k - 1)

C18_Witness ==
  /\ result = "diffed"
  /\ Len(entries) = 3
  /\ entries[2] = cursor_file
  /\ entries[3] = cursor_file
  /\ new_entries = <<entries[1]>>

\* C19 - Duplicate identifiers inside one snapshot are one item: no id is
\* taken up twice by the loop of one tick, and the new entries hold the
\* first occurrence of each id ahead of the cursor and no later one.
C19_DuplicatesDropped ==
  result = "diffed" =>
    /\ \A i, j \in 1..Len(handed) : handed[i] = handed[j] => i = j
    /\ \A i, j \in 1..Len(new_entries) : new_entries[i] = new_entries[j] => i = j

\* C20 - Whole-cycle cursor atomicity: while a tick runs the cursor file is
\* as it was when the tick began; it is written only by the step that ends
\* the tick, after every new entry was taken up, so at most once per tick and
\* never in a tick without new entries or in one an error ends in its loop.
C20_CursorWrittenOnceAtEnd ==
  [][ /\ pc # "idle" => cursor_file = start_cursor
      /\ cursor_file' # cursor_file =>
           /\ pc = "save" /\ pc' = "idle"
           /\ result = "running"
           /\ new_entries # <<>>
           /\ handed = ProcessingOrder(new_entries) ]_vars

C20_Witness ==
  /\ pc = "save"
  /\ start_cursor \in Ids
  /\ cursor_file = start_cursor
  /\ handed = ProcessingOrder(new_entries)
  /\ new_entries # <<>>
  /\ sentiment_history # <<>>

\* C21 - A cursor save that fails does not lose the checkpoint: when
\* save_last_id raises, the next load_last_id returns what it returned
\* before the attempt (a cursor that existed is not absent or empty
\* afterwards); when it returns, the next load returns the id it saved.
C21_SaveFailureKeepsCheckpoint ==
  [][ (pc = "save" /\ pc' = "idle") =>
        /\ result' = "cursor_error" =>
             load_last_id(cursor_file') = load_last_id(cursor_file)
        /\ result' = "ok" =>
             load_last_id(cursor_file') = NewestId(entries) ]_vars

====
